---- MODULE Spec2Model ----
(***************************************************************************)
(* Model of the merkle-tree crate (src/src/lib.rs): MerkleTree::new, root, *)
(* proof, leaves and verify, generic over a Hasher.                        *)
(*                                                                         *)
(* A digest is modelled symbolically.  A byte string is a sequence of      *)
(* symbols; Hasher::hash(v) is the sequence <<0>> \o v, so the digest of   *)
(* a pair of digests is  0 d1 d2  in prefix notation.  Every digest has    *)
(* the shape  0 n  (n >= 1, digest of the atomic byte string n) or         *)
(* 0 D D  (digest of the concatenation of two digests), which parses in    *)
(* one way only: the hash is collision-free, and it is not the identity.   *)
(* Two digests are equal exactly when their preimages are equal.           *)
(***************************************************************************)
EXTENDS Integers, Sequences, FiniteSets, TLC

\* Bounds of the model.
MaxLeaves == 5      \* longest leaf list handed to new() in canonical order
MaxShuffled == 3    \* longest leaf list handed to new() in every order
NAtoms == 4         \* number of distinct atomic byte strings

VARIABLES
    hasher,     \* the type parameter T: which Hasher (and so which Ord) is used
    input,      \* the caller-supplied leaf list, &[&Bytes]
    built,      \* TRUE once MerkleTree::new has returned
    leaves,     \* MerkleTree.leaves
    layers,     \* MerkleTree.layers
    rootRes,    \* outcome of the last call of root()
    proofRes,   \* argument and result of the last call of proof()
    verifyRes   \* arguments and result of the last call of verify()

vars == <<hasher, input, built, leaves, layers, rootRes, proofRes, verifyRes>>

----------------------------------------------------------------------------
\* Helpers over sequences (0-based indexing as in the source).

Range(s) == {s[k] : k \in 1..Len(s)}

At(s, i) == s[i + 1]

----------------------------------------------------------------------------
\* The Hasher capability.

\* The Hashers the tree is instantiated with.  Both compute the same digest;
\* they differ in the total order (Ord) of the digest type.
Hashers == {"lexAsc", "lexDesc"}

\* T::Hash::default(): the all-zero digest, which is no digest of any input here.
DefaultHash == <<>>

\* Hasher::hash: deterministic, fixed shape, injective.
HasherHash(value) == <<0>> \o value

\* Lexicographic comparison of two digests from symbol i on ([u8; 32]'s Ord).
RECURSIVE LexLessFrom(_, _, _)
LexLessFrom(a, b, i) ==
    IF i > Len(a) THEN i <= Len(b)
    ELSE IF i > Len(b) THEN FALSE
    ELSE IF a[i] # b[i] THEN a[i] < b[i]
    ELSE LexLessFrom(a, b, i + 1)

\* a < b in the Ord of the Hasher in use.
HashLess(a, b) ==
    IF hasher = "lexAsc" THEN LexLessFrom(a, b, 1) ELSE LexLessFrom(b, a, 1)

----------------------------------------------------------------------------
\* MerkleTree's private helpers.

\* MerkleTree::hash
hash(value) == HasherHash(value)

\* MerkleTree::hash_pair: hash of left's bytes followed by right's bytes.
hash_pair(left, right) ==
    LET combined == left \o right
    IN  HasherHash(combined)

\* Insert x into the ascending sequence s, after the elements equal to it.
RECURSIVE SortInsert(_, _)
SortInsert(s, x) ==
    IF s = <<>> THEN <<x>>
    ELSE IF HashLess(x, Head(s)) THEN <<x>> \o s
    ELSE <<Head(s)>> \o SortInsert(Tail(s), x)

\* slice::sort: ascending, stable, keeps every element.
RECURSIVE sort(_)
sort(s) ==
    IF s = <<>> THEN <<>>
    ELSE SortInsert(sort(SubSeq(s, 1, Len(s) - 1)), s[Len(s)])

----------------------------------------------------------------------------
\* MerkleTree::new

\* PairNodes as it would be if a trailing unpaired node were hashed with itself.
RECURSIVE PairNodesSelfHash(_, _, _)
PairNodesSelfHash(nodes, i, layer) ==
    IF i >= Len(nodes) THEN layer
    ELSE LET left == At(nodes, i)
             right == IF i + 1 = Len(nodes) THEN left ELSE At(nodes, i + 1)
             pair == sort(<<left, right>>)
         IN  PairNodesSelfHash(nodes, i + 2,
                               Append(layer, hash_pair(pair[1], pair[2])))

\* The loop "for i in (0..nodes.len()).step_by(2)" from index i on; layer is
\* layers[layer_index] as pushed so far.
RECURSIVE PairNodes(_, _, _)
PairNodes(nodes, i, layer) ==
    IF i >= Len(nodes) THEN layer
    ELSE IF i + 1 = Len(nodes) /\ Len(nodes) % 2 = 1
         THEN PairNodes(nodes, i + 2, Append(layer, At(nodes, i)))
    ELSE LET left == At(nodes, i)
             right == IF i + 1 = Len(nodes) THEN left ELSE At(nodes, i + 1)
             pair == sort(<<left, right>>)
         IN  PairNodes(nodes, i + 2, Append(layer, hash_pair(pair[1], pair[2])))

\* The loop "while nodes.len() > 1".
RECURSIVE BuildLayers(_, _)
BuildLayers(lys, nodes) ==
    IF Len(nodes) > 1
    THEN LET layer == PairNodes(nodes, 0, <<>>)
         IN  BuildLayers(Append(lys, layer), layer)
    ELSE lys

\* s without the elements equal to their predecessor.
RECURSIVE Dedup(_)
Dedup(s) ==
    IF Len(s) <= 1 THEN s
    ELSE IF s[1] = s[2] THEN Dedup(Tail(s))
    ELSE <<s[1]>> \o Dedup(Tail(s))

\* NewTree as it would be if the sorted leaves were deduplicated.
NewTreeDedup(leafBytes) ==
    LET lvs == Dedup(sort([k \in 1..Len(leafBytes) |-> hash(leafBytes[k])]))
    IN  [leaves |-> lvs, layers |-> BuildLayers(<<lvs>>, lvs)]

\* NewTree as it would be if the hashed leaves were not sorted.
NewTreeUnsorted(leafBytes) ==
    LET lvs == [k \in 1..Len(leafBytes) |-> hash(leafBytes[k])]
    IN  [leaves |-> lvs, layers |-> BuildLayers(<<lvs>>, lvs)]

\* MerkleTree::new: the tree built from the leaf list leafBytes.
NewTree(leafBytes) ==
    LET lvs == sort([k \in 1..Len(leafBytes) |-> hash(leafBytes[k])])
    IN  [leaves |-> lvs, layers |-> BuildLayers(<<lvs>>, lvs)]

----------------------------------------------------------------------------
\* MerkleTree::root.  Indexing an empty layer panics (index out of bounds).

RootOf(lys) ==
    IF Len(lys) = 0 THEN [panicked |-> FALSE, value |-> DefaultHash]
    ELSE IF Len(lys[Len(lys)]) = 0 THEN [panicked |-> TRUE, value |-> DefaultHash]
    ELSE [panicked |-> FALSE, value |-> At(lys[Len(lys)], 0)]

----------------------------------------------------------------------------
\* MerkleTree::proof

\* LocateLeaf as it would be if the scan stopped at the first match.
RECURSIVE LocateLeafFirst(_, _, _, _)
LocateLeafFirst(lvs, leaf, i, index) ==
    IF i >= Len(lvs) THEN index
    ELSE IF leaf = At(lvs, i) THEN i
    ELSE LocateLeafFirst(lvs, leaf, i + 1, index)

\* The scan "for i in 0..self.leaves.len()" from i on; index is -1 for None.
RECURSIVE LocateLeaf(_, _, _, _)
LocateLeaf(lvs, leaf, i, index) ==
    IF i >= Len(lvs) THEN index
    ELSE LocateLeaf(lvs, leaf, i + 1, IF leaf = At(lvs, i) THEN i ELSE index)

\* The loop "for i in 0..self.layers.len()" from layer i on.
RECURSIVE WalkLayers(_, _, _, _)
WalkLayers(lys, i, index, proof) ==
    IF i >= Len(lys) THEN proof
    ELSE LET layer == At(lys, i)
             right_node == (index % 2) > 0
             pair_index == IF right_node THEN index - 1 ELSE index + 1
             pushed == IF pair_index < Len(layer)
                       THEN Append(proof, At(layer, pair_index))
                       ELSE proof
         IN  WalkLayers(lys, i + 1, index \div 2, pushed)

\* ProofOf as it would be if a leaf that is not found were taken to be leaf 0.
ProofOfUnwrapOrZero(lvs, lys, leaf) ==
    LET index == LocateLeaf(lvs, leaf, 0, -1)
    IN  WalkLayers(lys, 0, IF index = -1 THEN 0 ELSE index, <<>>)

\* The body of proof(): None gives the default (empty) proof.
ProofOf(lvs, lys, leaf) ==
    LET index == LocateLeaf(lvs, leaf, 0, -1)
    IN  IF index = -1 THEN <<>> ELSE WalkLayers(lys, 0, index, <<>>)

----------------------------------------------------------------------------
\* MerkleTree::verify

\* VerifyFold as it would be if the pair were hashed in proof order, unsorted.
RECURSIVE VerifyFoldUnsorted(_, _, _)
VerifyFoldUnsorted(proof, i, h) ==
    IF i >= Len(proof) THEN h
    ELSE VerifyFoldUnsorted(proof, i + 1, hash_pair(h, At(proof, i)))

\* VerifyFold as it would be if the loop left out the last proof element.
RECURSIVE VerifyFoldShort(_, _, _)
VerifyFoldShort(proof, i, h) ==
    IF i >= Len(proof) - 1 THEN h
    ELSE LET node == At(proof, i)
         IN  VerifyFoldShort(proof, i + 1,
                             IF HashLess(h, node) THEN hash_pair(h, node)
                             ELSE hash_pair(node, h))

\* The loop "for i in 0..proof.len()" from i on, with the accumulator h.
RECURSIVE VerifyFold(_, _, _)
VerifyFold(proof, i, h) ==
    IF i >= Len(proof) THEN h
    ELSE LET node == At(proof, i)
         IN  VerifyFold(proof, i + 1,
                        IF HashLess(h, node) THEN hash_pair(h, node)
                        ELSE hash_pair(node, h))

Verify(proof, leaf, root) == VerifyFold(proof, 0, leaf) = root

----------------------------------------------------------------------------
\* Inputs.

\* The byte strings offered as leaves: the atomic strings, and the 64-byte
\* string made of the digests of atoms 1 and 2 in the order a pair is hashed,
\* whose digest is therefore also an inner node of some trees.
LeafBytes ==
    LET h1 == hash(<<1>>)
        h2 == hash(<<2>>)
        composite == IF HashLess(h1, h2) THEN h1 \o h2 ELSE h2 \o h1
    IN  [k \in 1..(NAtoms + 1) |-> IF k <= NAtoms THEN <<k>> ELSE composite]

\* The index sequences of length at most n over 1..m.
IndexSeqs(n, m) == UNION {[1..len -> 1..m] : len \in 0..n}

IsNonDecreasing(s) == \A k \in 1..(Len(s) - 1) : s[k] <= s[k + 1]

LeafLists ==
    {[k \in 1..Len(s) |-> LeafBytes[s[k]]] :
        s \in {t \in IndexSeqs(MaxLeaves, NAtoms + 1) :
                  Len(t) <= MaxShuffled \/ IsNonDecreasing(t)}}

NoRoot == [called |-> FALSE, panicked |-> FALSE, value |-> DefaultHash]
NoProof == [called |-> FALSE, leaf |-> DefaultHash, proof |-> <<>>]
NoVerify == [called |-> FALSE, proof |-> <<>>, leaf |-> DefaultHash,
             root |-> DefaultHash, result |-> FALSE]

----------------------------------------------------------------------------
\* The state machine: a caller builds a tree, then queries it.  A panic ends
\* the caller: nothing is called after root() has panicked.

Init ==
    /\ hasher \in Hashers
    /\ input \in LeafLists
    /\ built = FALSE
    /\ leaves = <<>>
    /\ layers = <<>>
    /\ rootRes = NoRoot
    /\ proofRes = NoProof
    /\ verifyRes = NoVerify

\* let tree = MerkleTree::<T>::new(&leaves)
New ==
    /\ ~built
    /\ built' = TRUE
    /\ leaves' = NewTree(input).leaves
    /\ layers' = NewTree(input).layers
    /\ UNCHANGED <<hasher, input, rootRes, proofRes, verifyRes>>

\* tree.root()
Root ==
    /\ built
    /\ ~rootRes.called
    /\ rootRes' = [called |-> TRUE, panicked |-> RootOf(layers).panicked,
                   value |-> RootOf(layers).value]
    /\ UNCHANGED <<hasher, input, built, leaves, layers, proofRes, verifyRes>>

\* The digests proof() is asked about: every leaf of the tree, and one digest
\* that is no leaf of it.
ProofArgs == Range(leaves) \cup {hash(<<NAtoms + 1>>)}

\* tree.proof(leaf)
Proof ==
    /\ built
    /\ ~rootRes.panicked
    /\ ~proofRes.called
    /\ \E leaf \in ProofArgs :
          proofRes' = [called |-> TRUE, leaf |-> leaf,
                       proof |-> ProofOf(leaves, layers, leaf)]
    /\ UNCHANGED <<hasher, input, built, leaves, layers, rootRes, verifyRes>>

\* The strict prefixes of p.
StrictPrefixes(p) == {SubSeq(p, 1, n) : n \in 0..(Len(p) - 1)}

\* The digests an extended proof is extended with.
ExtraHashes == {proofRes.leaf, rootRes.value, DefaultHash, hash(<<NAtoms + 1>>)}

\* The (proof, leaf, root) triples verify() is called with: the generated proof
\* with every leaf of the tree, the truncated and the extended proofs with the
\* proof's own leaf, and the generated proof against the default root.
VerifyArgs ==
    {<<proofRes.proof, l, rootRes.value>> : l \in Range(leaves) \cup {proofRes.leaf}}
    \cup {<<q, proofRes.leaf, rootRes.value>> : q \in StrictPrefixes(proofRes.proof)}
    \cup {<<Append(proofRes.proof, h), proofRes.leaf, rootRes.value>> : h \in ExtraHashes}
    \cup {<<proofRes.proof, proofRes.leaf, DefaultHash>>}

\* tree.verify(proof, leaf, root)
VerifyCall ==
    /\ built
    /\ rootRes.called
    /\ ~rootRes.panicked
    /\ proofRes.called
    /\ ~verifyRes.called
    /\ \E a \in VerifyArgs :
          verifyRes' = [called |-> TRUE, proof |-> a[1], leaf |-> a[2], root |-> a[3],
                        result |-> Verify(a[1], a[2], a[3])]
    /\ UNCHANGED <<hasher, input, built, leaves, layers, rootRes, proofRes>>

Next == New \/ Root \/ Proof \/ VerifyCall

Spec == Init /\ [][Next]_vars

----------------------------------------------------------------------------
\* Notions the properties are stated in.

\* The positions (0-based) of the tree's leaf sequence holding the digest h.
PositionsOf(h) == {i \in 0..(Len(leaves) - 1) : At(leaves, i) = h}

\* The highest position holding h.
HighestPositionOf(h) == CHOOSE i \in PositionsOf(h) : \A j \in PositionsOf(h) : j <= i

\* verify() was called with the generated proof, the proof's own leaf and the
\* tree's root.
VerifiedOwnProof ==
    /\ verifyRes.called
    /\ verifyRes.proof = proofRes.proof
    /\ verifyRes.leaf = proofRes.leaf
    /\ verifyRes.root = rootRes.value

\* The siblings along the path of position i from layer k upwards:
\* idx_0 = i, idx_(k+1) = floor(idx_k / 2); layer k gives the node left of
\* idx_k when idx_k is odd, the node right of it when idx_k is even and that
\* position exists, and nothing otherwise.
RECURSIVE SiblingPath(_, _)
SiblingPath(k, idx) ==
    IF k > Len(layers) THEN <<>>
    ELSE (IF idx % 2 = 1 THEN <<layers[k][idx]>>
          ELSE IF idx + 2 <= Len(layers[k]) THEN <<layers[k][idx + 2]>>
          ELSE <<>>)
         \o SiblingPath(k + 1, idx \div 2)

\* Position i is carried unpaired at some odd-length layer on its way up.
RECURSIVE CarriedFrom(_, _)
CarriedFrom(k, idx) ==
    IF k > Len(layers) THEN FALSE
    ELSE \/ (Len(layers[k]) % 2 = 1 /\ Len(layers[k]) > 1 /\ idx = Len(layers[k]) - 1)
         \/ CarriedFrom(k + 1, idx \div 2)

\* The sorted pair (low, high) of two digests, hashed.
ParentOf(a, b) == IF HashLess(b, a) THEN hash_pair(b, a) ELSE hash_pair(a, b)

\* n / 2 rounded up.
CeilHalf(n) == (n + 1) \div 2

\* The number of positions of sequence s holding x.
Count(s, x) == Cardinality({k \in 1..Len(s) : s[k] = x})

\* The leaf lists that are permutations of the leaf list l.
Rearrangements(l) ==
    {[k \in 1..Len(l) |-> l[p[k]]] : p \in Permutations(1..Len(l))}

\* The digests of the entries of the input, in the caller's order.
HashedInput == [k \in 1..Len(input) |-> hash(input[k])]

----------------------------------------------------------------------------
\* C1: for a tree built from a non-empty leaf list, verify called with the
\* proof generated for a leaf of the tree, that leaf and the tree's root
\* returns true; this holds for every leaf, the ones carried unpaired through
\* odd-length layers included.
C1_OwnProofVerifies ==
    (VerifiedOwnProof /\ Len(input) >= 1 /\ proofRes.leaf \in Range(leaves))
        => verifyRes.result = TRUE

\* Witness of C1: the last leaf of a tree of five distinct leaves, carried
\* through layers 0 and 1, was verified with its one-element proof.
C1_Witness ==
    /\ VerifiedOwnProof
    /\ Len(leaves) = 5
    /\ Cardinality(Range(leaves)) = 5
    /\ proofRes.leaf = leaves[5]
    /\ Len(proofRes.proof) = 1
    /\ verifyRes.result = TRUE

\* C2 (as stated): for every two distinct positions i # j of the leaf
\* sequence, verify called with the proof generated for leaves()[i], the leaf
\* leaves()[j] and the tree's root returns false.
C2_OtherPositionRejected ==
    (/\ verifyRes.called
     /\ verifyRes.proof = proofRes.proof
     /\ verifyRes.root = rootRes.value
     /\ \E i \in PositionsOf(proofRes.leaf) : \E j \in PositionsOf(verifyRes.leaf) : i # j)
        => verifyRes.result = FALSE

\* C2 where the two positions hold different digests: the code rejects the
\* other leaf; the statement of C2 fails only between equal leaves.
C2_OtherDigestRejected ==
    (/\ verifyRes.called
     /\ verifyRes.proof = proofRes.proof
     /\ verifyRes.root = rootRes.value
     /\ proofRes.leaf \in Range(leaves)
     /\ verifyRes.leaf \in Range(leaves)
     /\ verifyRes.leaf # proofRes.leaf)
        => verifyRes.result = FALSE

\* C3: the tree is invariant under permutation of the leaf list: for every
\* permutation of the input, new() builds the same leaves and layers, and
\* root() has the same outcome as the root() call made on the tree.
C3_PermutationInvariant ==
    (rootRes.called /\ ~proofRes.called) =>
        \A l \in Rearrangements(input) :
            LET t == NewTree(l)
            IN  /\ t.leaves = leaves
                /\ t.layers = layers
                /\ RootOf(t.layers).panicked = rootRes.panicked
                /\ RootOf(t.layers).value = rootRes.value

\* Witness of C3: root() was called on a tree built from a three-entry list
\* with a repeated value that the caller did not supply in sorted order.
C3_Witness ==
    /\ rootRes.called
    /\ ~proofRes.called
    /\ Len(input) = 3
    /\ input[1] = input[3]
    /\ input[1] # input[2]
    /\ HashedInput # leaves

\* C4 (as stated): for the empty leaf list, new() produces a tree with zero
\* layers, and root() returns the default digest without failing.
C4_EmptyTreeRootIsDefault ==
    /\ (built /\ input = <<>>) => Len(layers) = 0
    /\ (rootRes.called /\ input = <<>>) =>
           (~rootRes.panicked /\ rootRes.value = DefaultHash)

\* C5: verify returns a boolean and rejects altered proofs: for a leaf of a
\* non-empty tree with its generated proof p and the tree's root, verify
\* returns false for every strict prefix of p and for p extended by a digest.
C5_AlteredProofRejected ==
    /\ verifyRes.called => verifyRes.result \in BOOLEAN
    /\ (/\ verifyRes.called
        /\ Len(input) >= 1
        /\ proofRes.leaf \in Range(leaves)
        /\ verifyRes.leaf = proofRes.leaf
        /\ verifyRes.root = rootRes.value
        /\ \/ verifyRes.proof \in StrictPrefixes(proofRes.proof)
           \/ /\ Len(verifyRes.proof) = Len(proofRes.proof) + 1
              /\ SubSeq(verifyRes.proof, 1, Len(proofRes.proof)) = proofRes.proof)
           => verifyRes.result = FALSE

\* Witness of C5: verify was called with the proof of a leaf extended by the
\* tree's own root, and rejected it.
C5_Witness ==
    /\ verifyRes.called
    /\ Len(leaves) = 5
    /\ proofRes.leaf \in Range(leaves)
    /\ verifyRes.leaf = proofRes.leaf
    /\ verifyRes.root = rootRes.value
    /\ verifyRes.proof = Append(proofRes.proof, rootRes.value)
    /\ verifyRes.result = FALSE

\* C6: after new(L), leaves() has the length of L, is ascending in the
\* digest order, holds each digest as often as L holds an entry with that
\* digest (no deduplication), and layer 0 equals leaves().
C6_LeavesSortedWithMultiplicity ==
    built =>
        /\ Len(leaves) = Len(input)
        /\ \A k \in 1..(Len(leaves) - 1) : ~HashLess(leaves[k + 1], leaves[k])
        /\ \A h \in Range(leaves) \cup Range(HashedInput) :
               Count(leaves, h) = Count(HashedInput, h)
        /\ Len(layers) >= 1
        /\ layers[1] = leaves

\* Witness of C6: a tree built from an unsorted list in which one value is
\* repeated, whose leaves hold that value's digest twice.
C6_Witness ==
    /\ built
    /\ Len(input) = 3
    /\ input[1] = input[3]
    /\ input[1] # input[2]
    /\ HashedInput # leaves
    /\ Count(leaves, hash(input[1])) = 2

\* C7: proof(h) is the empty sequence whenever h is no leaf of the tree (the
\* tree of the empty list included), and also for the only leaf of a
\* single-leaf tree.
C7_AbsentOrOnlyLeafEmptyProof ==
    (proofRes.called /\ (proofRes.leaf \notin Range(leaves) \/ Len(leaves) = 1))
        => proofRes.proof = <<>>

\* Witness of C7: proof() was asked about a digest that is no leaf of a tree
\* of several leaves.
C7_Witness ==
    /\ proofRes.called
    /\ Len(leaves) >= 2
    /\ proofRes.leaf \notin Range(leaves)
    /\ proofRes.proof = <<>>

\* C8: for a non-empty leaf list, layer k+1 has ceil(len(layer k) / 2)
\* elements; element j is the hash of the sorted pair at positions 2j, 2j+1
\* of layer k when 2j+1 exists and is the element at 2j unchanged otherwise;
\* only the last layer has length 1, and root() returns its element (for one
\* leaf: one layer, and the root is the digest of that leaf).
C8_LayersFollowPairingRule ==
    (built /\ Len(input) >= 1) =>
        /\ \A k \in 1..(Len(layers) - 1) :
               /\ Len(layers[k]) > 1
               /\ Len(layers[k + 1]) = CeilHalf(Len(layers[k]))
               /\ \A j \in 0..(Len(layers[k + 1]) - 1) :
                      At(layers[k + 1], j) =
                          IF 2 * j + 1 < Len(layers[k])
                          THEN ParentOf(At(layers[k], 2 * j), At(layers[k], 2 * j + 1))
                          ELSE At(layers[k], 2 * j)
        /\ Len(layers[Len(layers)]) = 1
        /\ rootRes.called =>
               (~rootRes.panicked /\ rootRes.value = layers[Len(layers)][1])
        /\ Len(input) = 1 =>
               (Len(layers) = 1 /\ layers[1] = <<hash(input[1])>>)

\* Witness of C8: root() was called on a tree of five leaves whose layers
\* have 5, 3, 2 and 1 elements.
C8_Witness ==
    /\ rootRes.called
    /\ Len(leaves) = 5
    /\ Len(layers) = 4
    /\ Len(layers[2]) = 3
    /\ Len(layers[3]) = 2
    /\ layers[2][3] = leaves[5]

\* C9 (as stated): for every position i of a non-empty tree, the proof of
\* leaves()[i] is the sibling path of position i; its length is at most the
\* number of layers minus one, and less than that when position i is carried
\* at some odd-length layer.
C9_ProofIsSiblingPathOfEveryPosition ==
    proofRes.called =>
        \A i \in PositionsOf(proofRes.leaf) :
            /\ proofRes.proof = SiblingPath(1, i)
            /\ Len(proofRes.proof) <= Len(layers) - 1
            /\ CarriedFrom(1, i) => Len(proofRes.proof) < Len(layers) - 1

\* C9 where the leaf's digest is held by one position only: the code returns
\* the sibling path; the statement of C9 fails only for repeated leaves.
C9_ProofIsSiblingPathOfUniqueLeaf ==
    (proofRes.called /\ Cardinality(PositionsOf(proofRes.leaf)) = 1) =>
        \A i \in PositionsOf(proofRes.leaf) :
            /\ proofRes.proof = SiblingPath(1, i)
            /\ Len(proofRes.proof) <= Len(layers) - 1
            /\ CarriedFrom(1, i) => Len(proofRes.proof) < Len(layers) - 1

\* C10: when several positions hold the digest h, proof(h) is the sibling
\* path of the highest of them, and verify accepts that proof for h against
\* the tree's root.
C10_DuplicateFollowsHighestIndex ==
    (proofRes.called /\ Cardinality(PositionsOf(proofRes.leaf)) >= 2) =>
        /\ proofRes.proof = SiblingPath(1, HighestPositionOf(proofRes.leaf))
        /\ VerifiedOwnProof => verifyRes.result = TRUE

\* Witness of C10: a digest held by several positions whose lowest position
\* has another sibling path than the highest; its proof was verified.
C10_Witness ==
    /\ VerifiedOwnProof
    /\ Cardinality(PositionsOf(proofRes.leaf)) >= 2
    /\ \E i \in PositionsOf(proofRes.leaf) : SiblingPath(1, i) # proofRes.proof
    /\ verifyRes.result = TRUE

====
